---- MODULE Spec2Model ----
(***************************************************************************)
(* Model of the batch purge worker of python-outlook-cli                   *)
(* (src/outlook/purge.py) and of the bounded delete fan-out it calls       *)
(* (src/outlook/clients/__init__.py, OutlookClient.delete_messages), and of *)
(* the two move fan-outs: OutlookClient.move_messages and message_move_all *)
(* (src/outlook/actions/__init__.py).                                      *)
(*                                                                         *)
(* Two threads: the background thread runs _purge_worker, the foreground   *)
(* thread runs the prompt loop at the end of purge_worker.  The mail       *)
(* folder is the set of messages older than the cutoff, numbered in        *)
(* ascending receivedDateTime order.                                       *)
(***************************************************************************)
EXTENDS Integers, Sequences, FiniteSets, TLC

\* ---------------------------------------------------------------- bounds
MaxMsgs == 3        \* messages older than the cutoff at the start of a run
MaxBatch == 2       \* largest --batch-size tried
MaxIter == 1        \* iterations followed beyond one per message
MaxFan == 6         \* largest fan-out of the client-layer specification
MaxPages == 3       \* longest chain of pages of a source folder
MaxPageMsgs == 2    \* most messages on one page

\* the dry run never stops: the model follows this many iterations
IterCap == MaxMsgs + MaxIter

\* ------------------------------------------------------ program constants
MaxConcurrent == 4  \* Semaphore(4) in delete_messages

VARIABLES
    dry_run,        \* purge_worker argument
    batch_size,     \* purge_worker argument
    idless,         \* messages the server returns without an id
    mailbox0,       \* the folder's old messages when the run starts
    mailbox,        \* messages older than the cutoff still in the folder
    quit_event,     \* threading.Event shared by both threads
    bgpc,           \* position of the background thread
    counter,        \* _purge_worker local
    total,          \* _purge_worker local
    messages,       \* _purge_iteration local: the fetched page
    message_queue,  \* _purge_iteration local: ids of fetched messages with id
    reported,       \* index of the last message line echoed in this iteration
    it_total,       \* _purge_iteration local (parameter) total
    tasks,          \* delete_messages: state of each delete_with_semaphore task
    loop_closed,    \* the worker's event loop has been closed
    fgpc,           \* position of the foreground thread
    out,            \* lines written to the console, in order
    fetchLog,       \* history: page returned by each completed fetch
    fetchFailed,    \* history: a fetch raised
    delLog,         \* history: delete calls issued, in order
    setLog,         \* history: quit_event.set() calls, in order
    op,             \* the operation under way: purge, move_messages, move_all
    mvpc,           \* position of the move operation
    pages,          \* message_move_all: the pages the source folder serves
    next_link,      \* message_move_all local: page the next link points to
    message_ids,    \* ids to move (collected, or the argument)
    mvTasks,        \* state of each move task, by position in message_ids
    mvResult,       \* value the move operation returned (-1, <<-1>>: not yet)
    pageLog,        \* history: pages fetched, in order
    mvLog           \* history: move calls issued, by position, in order

vars == <<dry_run, batch_size, idless, mailbox0, mailbox, quit_event,
          bgpc, counter, total, messages, message_queue, reported, it_total,
          tasks, loop_closed, fgpc, out, fetchLog, fetchFailed, delLog,
          setLog, op, mvpc, pages, next_link, message_ids, mvTasks,
          mvResult, pageLog, mvLog>>

cfgVars == <<dry_run, batch_size, idless, mailbox0>>
bgLocals == <<counter, total, messages, message_queue, reported, it_total>>
hist == <<fetchLog, fetchFailed, delLog, setLog>>
mvVars == <<op, mvpc, pages, next_link, message_ids, mvTasks, mvResult,
            pageLog, mvLog>>
purgeVars == <<cfgVars, mailbox, quit_event, bgpc, bgLocals, tasks,
               loop_closed, fgpc, out, hist>>

\* ----------------------------------------------------------------- helpers
Min(S) == CHOOSE m \in S : \A n \in S : m <= n

RECURSIVE Oldest(_, _)
\* the first k messages of folder S in ascending receivedDateTime order
Oldest(S, k) ==
    IF S = {} \/ k = 0 THEN <<>>
    ELSE LET m == Min(S) IN <<m>> \o Oldest(S \ {m}, k - 1)

\* Message.id of message m as the client sees it; 0 is a missing id
MsgId(m) == IF m \in idless THEN 0 ELSE m

RECURSIVE Newest(_, _)
\* the first k messages of folder S in descending receivedDateTime order
Newest(S, k) ==
    IF S = {} \/ k = 0 THEN <<>>
    ELSE LET m == CHOOSE x \in S : \A y \in S : y <= x
         IN  <<m>> \o Newest(S \ {m}, k - 1)

\* variant: the page is asked in the default order, newest first
GetMessages_Newest ==
    LET page == Newest(mailbox, batch_size)
    IN  [i \in 1..Len(page) |-> [n |-> page[i], id |-> MsgId(page[i])]]

\* get_messages(folder_id, top=batch_size, orderby=receivedDateTime ASC,
\* filter=receivedDateTime lt cutoff): the page the server returns
GetMessages ==
    LET page == Oldest(mailbox, batch_size)
    IN  [i \in 1..Len(page) |-> [n |-> page[i], id |-> MsgId(page[i])]]

\* variant: the queue takes every fetched message, with or without id
QueueOf_All(ms) == [i \in DOMAIN ms |-> ms[i].id]

\* [(x.id, ...) for x in messages if x.id]
RECURSIVE QueueOf(_)
QueueOf(ms) ==
    IF ms = <<>> THEN <<>>
    ELSE IF Head(ms).id # 0 THEN <<Head(ms).id>> \o QueueOf(Tail(ms))
    ELSE QueueOf(Tail(ms))

Range(s) == {s[i] : i \in DOMAIN s}

ActionLabel == IF dry_run THEN "DRY-RUN" ELSE "DELETING"
\* variant: the RESULT line reuses the label of the message lines
ResultLabel_Deleting == IF dry_run THEN "DRY-RUN" ELSE "DELETING"

ResultLabel == IF dry_run THEN "DRY-RUN" ELSE "DELETED"

MsgLine(a, id) == [kind |-> "MSG", action |-> a, id |-> id]
ProgressLine(t, i, b) ==
    [kind |-> "PROGRESS", total |-> t, iteration |-> i, batch |-> b]
ResultLine(a, t) == [kind |-> "RESULT", action |-> a, total |-> t]
CompleteLine == [kind |-> "COMPLETE"]
AckLine == [kind |-> "ACK"]

SetRecord(who) ==
    [by |-> who, at |-> bgpc, fetches |-> Len(fetchLog) +
                                          (IF fetchFailed THEN 1 ELSE 0),
     lines |-> Len(out), was |-> quit_event]

\* Thread.is_alive()
ThreadAlive == bgpc \notin {"exited", "aborted"}

\* -------------------------------------------------------------------- Init
\* no move operation is under way
MoveIdle ==
    /\ mvpc = "idle"
    /\ pages = <<>>
    /\ next_link = 0
    /\ message_ids = <<>>
    /\ mvTasks = <<>>
    /\ mvResult = "none"
    /\ pageLog = <<>>
    /\ mvLog = <<>>

Init ==
    /\ op = "purge"
    /\ MoveIdle
    /\ dry_run \in BOOLEAN
    /\ batch_size \in 1..MaxBatch
    /\ \E n \in 0..MaxMsgs :
          /\ mailbox0 = 1..n
          /\ mailbox = 1..n
          /\ idless \in SUBSET (1..n)
    /\ quit_event = FALSE
    /\ bgpc = "check"
    /\ counter = 1
    /\ total = 0
    /\ messages = <<>>
    /\ message_queue = <<>>
    /\ reported = 0
    /\ it_total = 0
    /\ tasks = <<>>
    /\ loop_closed = FALSE
    /\ fgpc = "alive"
    /\ out = <<>>
    /\ fetchLog = <<>>
    /\ fetchFailed = FALSE
    /\ delLog = <<>>
    /\ setLog = <<>>

\* ------------------------------------------------------- background thread
\* variant: the loop condition is not evaluated before an iteration
BgCheckContinue_NoTest ==
    /\ bgpc = "check"
    /\ counter <= IterCap
    /\ bgpc' = "iter"
    /\ it_total' = total
    /\ UNCHANGED <<mvVars, cfgVars, mailbox, quit_event, counter, total, messages,
                   message_queue, reported, tasks, loop_closed, fgpc, out,
                   hist>>

\* while not quit_event.is_set(): the loop continues into an iteration
BgCheckContinue ==
    /\ bgpc = "check"
    /\ ~quit_event
    /\ counter <= IterCap
    /\ bgpc' = "iter"
    /\ it_total' = total
    /\ UNCHANGED <<mvVars, cfgVars, mailbox, quit_event, counter, total, messages,
                   message_queue, reported, tasks, loop_closed, fgpc, out,
                   hist>>

\* variant: the signal is cleared once the loop has seen it
BgCheckStop_Clear ==
    /\ bgpc = "check"
    /\ quit_event
    /\ quit_event' = FALSE
    /\ bgpc' = "close_ok"
    /\ UNCHANGED <<mvVars, cfgVars, mailbox, bgLocals, tasks, loop_closed,
                   fgpc, out, hist>>

\* while not quit_event.is_set(): the loop is left normally
BgCheckStop ==
    /\ bgpc = "check"
    /\ quit_event
    /\ bgpc' = "close_ok"
    /\ UNCHANGED <<mvVars, cfgVars, mailbox, quit_event, bgLocals, tasks,
                   loop_closed, fgpc, out, hist>>

\* OutlookClient() and await manager.get_messages(...) return a page
BgFetch ==
    /\ bgpc = "iter"
    /\ messages' = GetMessages
    /\ message_queue' = QueueOf(GetMessages)
    /\ reported' = 0
    /\ fetchLog' = Append(fetchLog, GetMessages)
    /\ bgpc' = IF GetMessages = <<>> THEN "empty" ELSE "report"
    /\ UNCHANGED <<mvVars, cfgVars, mailbox, quit_event, counter, total, it_total,
                   tasks, loop_closed, fgpc, out, fetchFailed, delLog, setLog>>

\* variant: the exception of the fetch is swallowed and the loop goes on
BgFetchRaise_Retry ==
    /\ bgpc = "iter"
    /\ fetchFailed' = TRUE
    /\ bgpc' = "check"
    /\ UNCHANGED <<mvVars, cfgVars, mailbox, quit_event, bgLocals, tasks,
                   loop_closed, fgpc, out, fetchLog, delLog, setLog>>

\* OutlookClient() or await manager.get_messages(...) raises
BgFetchRaise ==
    /\ bgpc = "iter"
    /\ fetchFailed' = TRUE
    /\ bgpc' = "close_exc"
    /\ UNCHANGED <<mvVars, cfgVars, mailbox, quit_event, bgLocals, tasks,
                   loop_closed, fgpc, out, fetchLog, delLog, setLog>>

\* variant: the empty page does not set the signal
BgEmpty_NoSet ==
    /\ bgpc = "empty"
    /\ out' = Append(out, CompleteLine)
    /\ total' = total + 0
    /\ counter' = counter + 1
    /\ bgpc' = "check"
    /\ UNCHANGED <<mvVars, cfgVars, mailbox, quit_event, messages, message_queue,
                   reported, it_total, tasks, loop_closed, fgpc, hist>>

\* if not messages: echo, quit_event.set(), return 0; total += 0; counter += 1
BgEmpty ==
    /\ bgpc = "empty"
    /\ out' = Append(out, CompleteLine)
    /\ quit_event' = TRUE
    /\ setLog' = Append(setLog, SetRecord("bg"))
    /\ total' = total + 0
    /\ counter' = counter + 1
    /\ bgpc' = "check"
    /\ UNCHANGED <<mvVars, cfgVars, mailbox, messages, message_queue, reported,
                   it_total, tasks, loop_closed, fgpc, fetchLog, fetchFailed,
                   delLog>>

\* for m_id, ... in message_queue: click.echo(action|m_id|...)
BgEchoMessage ==
    /\ bgpc = "report"
    /\ reported < Len(message_queue)
    /\ reported' = reported + 1
    /\ out' = Append(out, MsgLine(ActionLabel, message_queue[reported + 1]))
    /\ UNCHANGED <<mvVars, cfgVars, mailbox, quit_event, bgpc, counter, total,
                   messages, message_queue, it_total, tasks, loop_closed,
                   fgpc, hist>>

\* variant: the deletes are issued before the PROGRESS line is echoed
BgProgress_DeleteBeforeProgress ==
    /\ bgpc = "report"
    /\ reported = Len(message_queue)
    /\ it_total' = it_total + Len(message_queue)
    /\ IF dry_run
       THEN /\ bgpc' = "return"
            /\ tasks' = tasks
            /\ out' = Append(out, ProgressLine(it_total + Len(message_queue),
                                               counter, Len(message_queue)))
       ELSE /\ bgpc' = "gather"
            /\ tasks' = [m \in Range(message_queue) |-> "waiting"]
            /\ out' = out
    /\ UNCHANGED <<mvVars, cfgVars, mailbox, quit_event, counter, total, messages,
                   message_queue, reported, loop_closed, fgpc, hist>>

\* variant: the deletes are issued in a dry run too
BgProgress_AlwaysDelete ==
    /\ bgpc = "report"
    /\ reported = Len(message_queue)
    /\ it_total' = it_total + Len(message_queue)
    /\ out' = Append(out, ProgressLine(it_total + Len(message_queue), counter,
                                       Len(message_queue)))
    /\ bgpc' = "gather"
    /\ tasks' = [m \in Range(message_queue) |-> "waiting"]
    /\ UNCHANGED <<mvVars, cfgVars, mailbox, quit_event, counter, total, messages,
                   message_queue, reported, loop_closed, fgpc, hist>>

\* variant: the delete is skipped once the signal is set
BgProgress_SkipOnQuit ==
    /\ bgpc = "report"
    /\ reported = Len(message_queue)
    /\ it_total' = it_total + Len(message_queue)
    /\ out' = Append(out, ProgressLine(it_total + Len(message_queue), counter,
                                       Len(message_queue)))
    /\ IF dry_run \/ quit_event
       THEN /\ bgpc' = "return"
            /\ tasks' = tasks
       ELSE /\ bgpc' = "gather"
            /\ tasks' = [m \in Range(message_queue) |-> "waiting"]
    /\ UNCHANGED <<mvVars, cfgVars, mailbox, quit_event, counter, total, messages,
                   message_queue, reported, loop_closed, fgpc, hist>>

\* batch = len(message_queue); total += batch; echo PROGRESS;
\* if not dry_run: delete_messages(...) creates one task per id
BgProgress ==
    /\ bgpc = "report"
    /\ reported = Len(message_queue)
    /\ it_total' = it_total + Len(message_queue)
    /\ out' = Append(out, ProgressLine(it_total + Len(message_queue), counter,
                                       Len(message_queue)))
    /\ IF dry_run
       THEN /\ bgpc' = "return"
            /\ tasks' = tasks
       ELSE /\ bgpc' = "gather"
            /\ tasks' = [m \in Range(message_queue) |-> "waiting"]
    /\ UNCHANGED <<mvVars, cfgVars, mailbox, quit_event, counter, total, messages,
                   message_queue, reported, loop_closed, fgpc, hist>>

InFlight == {m \in DOMAIN tasks : tasks[m] = "inflight"}

\* a task that has not entered the semaphore can enter it now; the event
\* loop runs such a task before it handles any later completion
StartPending ==
    /\ \E m \in DOMAIN tasks : tasks[m] = "waiting"
    /\ Cardinality(InFlight) < MaxConcurrent

\* m is the first task, in creation order, still outside the semaphore
FirstWaiting(m) ==
    \E j \in DOMAIN message_queue :
        /\ message_queue[j] = m
        /\ tasks[m] = "waiting"
        /\ \A i \in 1..(j - 1) : tasks[message_queue[i]] # "waiting"

\* async with semaphore: await self._get_message(message_id).delete() is sent
DeleteStart(m) ==
    /\ bgpc = "gather"
    /\ m \in DOMAIN tasks
    /\ FirstWaiting(m)
    /\ Cardinality(InFlight) < MaxConcurrent
    /\ tasks' = [tasks EXCEPT ![m] = "inflight"]
    /\ delLog' = Append(delLog, [id |-> m, iteration |-> counter])
    /\ UNCHANGED <<mvVars, cfgVars, mailbox, quit_event, bgpc, bgLocals, loop_closed,
                   fgpc, out, fetchLog, fetchFailed, setLog>>

\* the delete returns: the message has left the folder
DeleteOk(m) ==
    /\ bgpc = "gather"
    /\ m \in DOMAIN tasks
    /\ tasks[m] = "inflight"
    /\ ~StartPending
    /\ tasks' = [tasks EXCEPT ![m] = "ok"]
    /\ mailbox' = mailbox \ {m}
    /\ UNCHANGED <<mvVars, cfgVars, quit_event, bgpc, bgLocals, loop_closed, fgpc,
                   out, hist>>

\* the delete raises
DeleteFail(m) ==
    /\ bgpc = "gather"
    /\ m \in DOMAIN tasks
    /\ tasks[m] = "inflight"
    /\ ~StartPending
    /\ tasks' = [tasks EXCEPT ![m] = "failed"]
    /\ UNCHANGED <<mvVars, cfgVars, mailbox, quit_event, bgpc, bgLocals, loop_closed,
                   fgpc, out, hist>>

\* variant: the wait collects the exceptions of the deletes as results
BgGatherDone_CollectsExceptions ==
    /\ bgpc = "gather"
    /\ \A m \in DOMAIN tasks : tasks[m] \in {"ok", "failed"}
    /\ bgpc' = "return"
    /\ UNCHANGED <<mvVars, cfgVars, mailbox, quit_event, bgLocals, tasks,
                   loop_closed, fgpc, out, hist>>

\* variant: the wait ends with the first delete that finishes
BgGatherDone_FirstCompleted ==
    /\ bgpc = "gather"
    /\ \E m \in DOMAIN tasks : tasks[m] = "ok"
    /\ bgpc' = "return"
    /\ UNCHANGED <<mvVars, cfgVars, mailbox, quit_event, bgLocals, tasks,
                   loop_closed, fgpc, out, hist>>

\* await gather(...): every task finished without an exception
BgGatherDone ==
    /\ bgpc = "gather"
    /\ \A m \in DOMAIN tasks : tasks[m] = "ok"
    /\ bgpc' = "return"
    /\ UNCHANGED <<mvVars, cfgVars, mailbox, quit_event, bgLocals, tasks, loop_closed,
                   fgpc, out, hist>>

\* await gather(...): the first exception of a task is raised to the awaiter
BgGatherRaise ==
    /\ bgpc = "gather"
    /\ \E m \in DOMAIN tasks : tasks[m] = "failed"
    /\ ~StartPending
    /\ bgpc' = "close_exc"
    /\ UNCHANGED <<mvVars, cfgVars, mailbox, quit_event, bgLocals, tasks, loop_closed,
                   fgpc, out, hist>>

\* variant: the signal is not read again between two iterations
BgReturn_NoRecheck ==
    /\ bgpc = "return"
    /\ total' = total + Len(message_queue)
    /\ counter' = counter + 1
    /\ bgpc' = IF counter < IterCap THEN "iter" ELSE "check"
    /\ it_total' = total + Len(message_queue)
    /\ UNCHANGED <<mvVars, cfgVars, mailbox, quit_event, messages,
                   message_queue, reported, tasks, loop_closed, fgpc, out,
                   hist>>

\* variant: the iteration returns its running total instead of the batch
BgReturn_ReturnsTotal ==
    /\ bgpc = "return"
    /\ total' = total + it_total
    /\ counter' = counter + 1
    /\ bgpc' = "check"
    /\ UNCHANGED <<mvVars, cfgVars, mailbox, quit_event, messages, message_queue,
                   reported, it_total, tasks, loop_closed, fgpc, out, hist>>

\* return batch; total += <returned value>; counter += 1
BgReturn ==
    /\ bgpc = "return"
    /\ total' = total + Len(message_queue)
    /\ counter' = counter + 1
    /\ bgpc' = "check"
    /\ UNCHANGED <<mvVars, cfgVars, mailbox, quit_event, messages, message_queue,
                   reported, it_total, tasks, loop_closed, fgpc, out, hist>>

\* finally: loop.close()
BgClose ==
    /\ bgpc \in {"close_ok", "close_exc"}
    /\ loop_closed' = TRUE
    /\ bgpc' = IF bgpc = "close_ok" THEN "result" ELSE "aborted"
    /\ UNCHANGED <<mvVars, cfgVars, mailbox, quit_event, bgLocals, tasks, fgpc, out,
                   hist>>

\* click.echo(RESULT|...) and the thread ends
BgResult ==
    /\ bgpc = "result"
    /\ out' = Append(out, ResultLine(ResultLabel, total))
    /\ bgpc' = "exited"
    /\ UNCHANGED <<mvVars, cfgVars, mailbox, quit_event, bgLocals, tasks, loop_closed,
                   fgpc, hist>>

Background ==
    \/ BgCheckContinue \/ BgCheckStop \/ BgFetch \/ BgFetchRaise \/ BgEmpty
    \/ BgEchoMessage \/ BgProgress
    \/ \E m \in DOMAIN tasks : DeleteStart(m)
    \/ \E m \in DOMAIN tasks : DeleteOk(m)
    \/ \E m \in DOMAIN tasks : DeleteFail(m)
    \/ BgGatherDone \/ BgGatherRaise \/ BgReturn \/ BgClose \/ BgResult

\* ------------------------------------------------------- foreground thread
\* str.upper on the characters the input lines use
UpperChar(c) ==
    CASE c = "q" -> "Q"
      [] c = "u" -> "U"
      [] c = "i" -> "I"
      [] c = "t" -> "T"
      [] c = "s" -> "S"
      [] OTHER -> c

\* variant: the line is compared as typed
Upper_AsTyped(s) == s

\* value_proc=str.upper
Upper(s) == [i \in DOMAIN s |-> UpperChar(s[i])]

QUIT == <<"Q", "U", "I", "T">>

\* lines the user may type (click.prompt asks again on an empty line)
InputLines ==
    { <<"q", "u", "i", "t">>, <<"Q", "U", "I", "T">>, <<"Q", "u", "i", "T">>,
      <<"q">>, <<"q", "u", "i", "t", "s">>, <<" ", "q", "u", "i", "t">> }

\* while thread.is_alive():
FgIsAlive ==
    /\ fgpc = "alive"
    /\ fgpc' = IF ThreadAlive THEN "prompt" ELSE "returned"
    /\ UNCHANGED <<mvVars, cfgVars, mailbox, quit_event, bgpc, bgLocals, tasks,
                   loop_closed, out, hist>>

\* click.prompt(...) returns a line; == "QUIT" decides
FgPrompt(line) ==
    /\ fgpc = "prompt"
    /\ fgpc' = IF Upper(line) = QUIT THEN "ack" ELSE "alive"
    /\ UNCHANGED <<mvVars, cfgVars, mailbox, quit_event, bgpc, bgLocals, tasks,
                   loop_closed, out, hist>>

\* click.prompt(...) raises click.Abort on end of input
FgPromptAbort ==
    /\ fgpc = "prompt"
    /\ fgpc' = "raised"
    /\ UNCHANGED <<mvVars, cfgVars, mailbox, quit_event, bgpc, bgLocals, tasks,
                   loop_closed, out, hist>>

\* click.echo("User requested quit. Finishing current batch...")
FgAck ==
    /\ fgpc = "ack"
    /\ out' = Append(out, AckLine)
    /\ fgpc' = "set"
    /\ UNCHANGED <<mvVars, cfgVars, mailbox, quit_event, bgpc, bgLocals, tasks,
                   loop_closed, hist>>

\* quit_event.set(); break; purge_worker returns
FgSet ==
    /\ fgpc = "set"
    /\ quit_event' = TRUE
    /\ setLog' = Append(setLog, SetRecord("fg"))
    /\ fgpc' = "returned"
    /\ UNCHANGED <<mvVars, cfgVars, mailbox, bgpc, bgLocals, tasks, loop_closed, out,
                   fetchLog, fetchFailed, delLog>>

UserInput == (\E line \in InputLines : FgPrompt(line)) \/ FgPromptAbort

Foreground == FgIsAlive \/ UserInput \/ FgAck \/ FgSet

\* --------------------------------------------------------- move operations
\* Message.id of message j of page p as the client sees it; 0 is a missing id
PageMsgId(p, j) == IF j \in pages[p].noid THEN 0 ELSE 10 * p + j

\* response.value of page p (empty when the response is None)
PageValue(p) ==
    IF pages[p].resp = "ok" THEN [j \in 1..pages[p].n |-> PageMsgId(p, j)]
    ELSE <<>>

\* response.odata_next_link of page p: the page it points to, 0 when absent
NextLinkOf(p) ==
    IF pages[p].resp = "ok" /\ p < Len(pages) THEN p + 1 ELSE 0

RECURSIVE IdsOf(_)
\* [msg.id for msg in response.value if msg.id]
IdsOf(v) ==
    IF v = <<>> THEN <<>>
    ELSE IF Head(v) # 0 THEN <<Head(v)>> \o IdsOf(Tail(v))
    ELSE IdsOf(Tail(v))

\* one page as the server may answer it
PageSet ==
    {pg \in [resp : {"none", "ok"}, n : 0..MaxPageMsgs,
             noid : SUBSET (1..MaxPageMsgs)] :
        /\ pg.noid \subseteq 1..pg.n
        /\ pg.resp = "none" => pg.n = 0}

\* the finite chains of pages: each page but the last links to the next one
Chains == UNION {[1..l -> PageSet] : l \in 1..MaxPages}

\* the page the request of this turn of the loop asks for
PageAsked == IF next_link # 0 THEN next_link ELSE 1

\* variant: the ids of a page without a next link are not collected
MvFetchPage_DropsLast ==
    /\ op = "move_all"
    /\ mvpc = "collect"
    /\ pageLog' = Append(pageLog, PageAsked)
    /\ IF PageValue(PageAsked) # <<>> /\ NextLinkOf(PageAsked) # 0
       THEN /\ message_ids' = message_ids \o IdsOf(PageValue(PageAsked))
            /\ next_link' = NextLinkOf(PageAsked)
            /\ mvpc' = "collect"
       ELSE /\ mvpc' = "collected"
            /\ UNCHANGED <<message_ids, next_link>>
    /\ UNCHANGED <<purgeVars, op, pages, mvTasks, mvResult, mvLog>>

\* while True: fetch a page, extend message_ids, follow or stop
MvFetchPage ==
    /\ op = "move_all"
    /\ mvpc = "collect"
    /\ pageLog' = Append(pageLog, PageAsked)
    /\ IF PageValue(PageAsked) # <<>>
       THEN /\ message_ids' = message_ids \o IdsOf(PageValue(PageAsked))
            /\ next_link' = NextLinkOf(PageAsked)
            /\ mvpc' = IF NextLinkOf(PageAsked) = 0 THEN "collected"
                       ELSE "collect"
       ELSE /\ mvpc' = "collected"
            /\ UNCHANGED <<message_ids, next_link>>
    /\ UNCHANGED <<purgeVars, op, pages, mvTasks, mvResult, mvLog>>

\* the request of a page raises
MvFetchRaise ==
    /\ op = "move_all"
    /\ mvpc = "collect"
    /\ mvpc' = "raised"
    /\ UNCHANGED <<purgeVars, op, pages, next_link, message_ids, mvTasks,
                   mvResult, pageLog, mvLog>>

\* if not message_ids: return 0; else gather(...) creates one task per id
MvStart ==
    /\ op = "move_all"
    /\ mvpc = "collected"
    /\ IF message_ids = <<>>
       THEN /\ mvpc' = "returned"
            /\ mvResult' = 0
            /\ mvTasks' = mvTasks
       ELSE /\ mvpc' = "gather"
            /\ mvResult' = mvResult
            /\ mvTasks' = [i \in DOMAIN message_ids |-> "waiting"]
    /\ UNCHANGED <<purgeVars, op, pages, next_link, message_ids, pageLog,
                   mvLog>>

MvInFlight == {i \in DOMAIN mvTasks : mvTasks[i] = "inflight"}

\* a move task can enter the semaphore now
MvStartPending ==
    /\ \E i \in DOMAIN mvTasks : mvTasks[i] = "waiting"
    /\ Cardinality(MvInFlight) < MaxConcurrent

\* async with semaphore: message.move.post(...) is sent
MoveStart(i) ==
    /\ mvpc = "gather"
    /\ i \in DOMAIN mvTasks
    /\ mvTasks[i] = "waiting"
    /\ \A j \in 1..(i - 1) : mvTasks[j] # "waiting"
    /\ Cardinality(MvInFlight) < MaxConcurrent
    /\ mvTasks' = [mvTasks EXCEPT ![i] = "inflight"]
    /\ mvLog' = Append(mvLog, i)
    /\ UNCHANGED <<purgeVars, op, mvpc, pages, next_link, message_ids,
                   mvResult, pageLog>>

\* the move call ends: returns the moved message, returns None, or raises
MoveSettle(i, outcome) ==
    /\ mvpc = "gather"
    /\ i \in DOMAIN mvTasks
    /\ mvTasks[i] = "inflight"
    /\ ~MvStartPending
    /\ mvTasks' = [mvTasks EXCEPT ![i] = outcome]
    /\ UNCHANGED <<purgeVars, op, mvpc, pages, next_link, message_ids,
                   mvResult, pageLog, mvLog>>

MoveOk(i) == MoveSettle(i, "ok")
MoveNone(i) == MoveSettle(i, "none")
MoveFail(i) == MoveSettle(i, "failed")

\* variant: move_with_limit answers True whatever the post did
MoveWithLimit_AlwaysTrue(st) == st \in {"ok", "none", "failed"}

\* move_with_limit: True when the post did not raise, False when it did
MoveWithLimit(st) == st \in {"ok", "none"}

\* sum(results) of message_move_all
MoveAllResult ==
    Cardinality({i \in DOMAIN mvTasks : MoveWithLimit(mvTasks[i])})

\* the list gather returns to move_messages: the message or None, by position
MoveMessagesResult ==
    [i \in DOMAIN mvTasks |-> IF mvTasks[i] = "ok" THEN message_ids[i] ELSE 0]

\* await gather(...) returns: every task has finished, none with an
\* exception that reached gather
MvGatherDone ==
    /\ mvpc = "gather"
    /\ \A i \in DOMAIN mvTasks : mvTasks[i] \in {"ok", "none", "failed"}
    /\ op = "move_messages" => \A i \in DOMAIN mvTasks : mvTasks[i] # "failed"
    /\ mvpc' = "returned"
    /\ mvResult' = IF op = "move_all" THEN MoveAllResult
                   ELSE MoveMessagesResult
    /\ UNCHANGED <<purgeVars, op, pages, next_link, message_ids, mvTasks,
                   pageLog, mvLog>>

\* await gather(...) of move_messages: the first exception of a task is
\* raised to the caller
MvGatherRaise ==
    /\ op = "move_messages"
    /\ mvpc = "gather"
    /\ \E i \in DOMAIN mvTasks : mvTasks[i] = "failed"
    /\ ~MvStartPending
    /\ mvpc' = "raised"
    /\ UNCHANGED <<purgeVars, op, pages, next_link, message_ids, mvTasks,
                   mvResult, pageLog, mvLog>>

\* purge_worker is not running
PurgeIdle ==
    /\ dry_run = FALSE
    /\ batch_size = 1
    /\ idless = {}
    /\ mailbox0 = {}
    /\ mailbox = {}
    /\ quit_event = FALSE
    /\ bgpc = "idle"
    /\ counter = 1
    /\ total = 0
    /\ messages = <<>>
    /\ message_queue = <<>>
    /\ reported = 0
    /\ it_total = 0
    /\ tasks = <<>>
    /\ loop_closed = FALSE
    /\ fgpc = "idle"
    /\ out = <<>>
    /\ fetchLog = <<>>
    /\ fetchFailed = FALSE
    /\ delLog = <<>>
    /\ setLog = <<>>

\* a deleting purge with --batch-size n that has fetched and reported its
\* first page of n messages and is about to echo PROGRESS and delete them
PurgeReported(n) ==
    /\ dry_run = FALSE
    /\ batch_size = n
    /\ idless = {}
    /\ mailbox0 = 1..n
    /\ mailbox = 1..n
    /\ quit_event = FALSE
    /\ bgpc = "report"
    /\ counter = 1
    /\ total = 0
    /\ messages = [i \in 1..n |-> [n |-> i, id |-> i]]
    /\ message_queue = [i \in 1..n |-> i]
    /\ reported = n
    /\ it_total = 0
    /\ tasks = <<>>
    /\ loop_closed = FALSE
    /\ fgpc = "prompt"
    /\ out = [i \in 1..n |-> MsgLine("DELETING", i)]
    /\ fetchLog = <<[i \in 1..n |-> [n |-> i, id |-> i]]>>
    /\ fetchFailed = FALSE
    /\ delLog = <<>>
    /\ setLog = <<>>

\* the three fan-outs of the client layer, each on an input of up to MaxFan
ClientInit ==
    \/ /\ op = "purge"
       /\ MoveIdle
       /\ \E n \in 1..MaxFan : PurgeReported(n)
    \/ /\ op = "move_messages"
       /\ PurgeIdle
       /\ mvpc = "gather"
       /\ pages = <<>>
       /\ next_link = 0
       /\ \E n \in 0..MaxFan :
             /\ message_ids = [i \in 1..n |-> i]
             /\ mvTasks = [i \in 1..n |-> "waiting"]
       /\ mvResult = <<-1>>
       /\ pageLog = <<>>
       /\ mvLog = <<>>
    \/ /\ op = "move_all"
       /\ PurgeIdle
       /\ mvpc = "collect"
       /\ pages \in Chains
       /\ next_link = 0
       /\ message_ids = <<>>
       /\ mvTasks = <<>>
       /\ mvResult = -1
       /\ pageLog = <<>>
       /\ mvLog = <<>>

ClientNext ==
    \/ BgProgress
    \/ \E m \in DOMAIN tasks : DeleteStart(m)
    \/ \E m \in DOMAIN tasks : DeleteOk(m)
    \/ \E m \in DOMAIN tasks : DeleteFail(m)
    \/ BgGatherDone \/ BgGatherRaise \/ BgReturn \/ BgClose
    \/ MvFetchPage \/ MvFetchRaise \/ MvStart
    \/ \E i \in DOMAIN mvTasks : MoveStart(i)
    \/ \E i \in DOMAIN mvTasks : MoveOk(i)
    \/ \E i \in DOMAIN mvTasks : MoveNone(i)
    \/ \E i \in DOMAIN mvTasks : MoveFail(i)
    \/ MvGatherDone \/ MvGatherRaise

\* --------------------------------------------------------- specifications
Next == Background \/ Foreground

Spec == Init /\ [][Next]_vars

\* Both threads are scheduled; nothing obliges the user to type a line.
FairSpec ==
    /\ Spec
    /\ WF_vars(Background)
    /\ WF_vars(FgIsAlive \/ FgAck \/ FgSet)

\* The fan-outs of the client layer on larger inputs.
ClientSpec == ClientInit /\ [][ClientNext]_vars

\* Every call of the mail client ends and the event loop keeps running.
FairClientSpec == ClientSpec /\ WF_vars(ClientNext)


\* ------------------------------------------------- reading the histories
Last(s) == s[Len(s)]

RECURSIVE SumBatches(_)
\* sum of len(message_queue) over the fetched pages
SumBatches(log) ==
    IF log = <<>> THEN 0
    ELSE Len(QueueOf(Head(log))) + SumBatches(Tail(log))

\* fetches started so far
Fetches == Len(fetchLog) + (IF fetchFailed THEN 1 ELSE 0)

LinesOf(kind) == SelectSeq(out, LAMBDA l : l.kind = kind)
BgOut == SelectSeq(out, LAMBDA l : l.kind # "ACK")

IsPrefix(s, t) == Len(s) <= Len(t) /\ \A i \in DOMAIN s : s[i] = t[i]

\* the last n lines of sequence s
Suffix(s, n) == SubSeq(s, Len(s) - n + 1, Len(s))

\* ------------------------------------------------------------------ claims

\* C1: purge_worker does not return to its caller before the background
\* thread has exited, also when the user typed QUIT while a batch is in
\* flight.
C1_JoinSemantics == fgpc = "returned" => ~ThreadAlive

\* message and PROGRESS lines, in the order they were written
BatchLines == SelectSeq(out, LAMBDA l : l.kind \in {"MSG", "PROGRESS"})

\* The lines, the delete calls and the task states the last fetched page
\* must have produced once its iteration is over.
LastBatchSettled ==
    LET ids == QueueOf(Last(fetchLog))
        k == Len(fetchLog)
        tail == Suffix(BatchLines, Len(ids) + 1)
    IN  /\ Len(BatchLines) >= Len(ids) + 1
        /\ \A i \in 1..Len(ids) : tail[i] = MsgLine(ActionLabel, ids[i])
        /\ tail[Len(ids) + 1].kind = "PROGRESS"
        /\ tail[Len(ids) + 1].iteration = k
        /\ tail[Len(ids) + 1].batch = Len(ids)
        /\ ~dry_run =>
              /\ DOMAIN tasks = Range(ids)
              /\ \A m \in Range(ids) :
                    /\ tasks[m] = "ok"
                    /\ \E j \in DOMAIN delLog : delLog[j] = [id |-> m, iteration |-> k]

\* C2: the cancellation signal is read only at the top of an iteration:
\* whenever the background thread is about to read it, or has left the loop
\* through it, after a non-empty fetch, every message of that batch has been
\* reported, its PROGRESS line has been emitted and, when not a dry run,
\* every delete of the batch has been issued and has settled, whenever the
\* signal was set; an iteration is cut short only by a fetch or a delete
\* that raised, never by the signal.
C2_CancelOnlyAtTop ==
    /\ (bgpc \in {"check", "close_ok", "result", "exited"}
          /\ fetchLog # <<>> /\ Last(fetchLog) # <<>>) => LastBatchSettled
    /\ bgpc \in {"close_exc", "aborted"} =>
          (fetchFailed \/ \E m \in DOMAIN tasks : tasks[m] = "failed")

\* C2 witness: the user's QUIT set the signal while a batch of two was being
\* reported or deleted, and that batch has been completed.
C2_Witness ==
    /\ bgpc = "check"
    /\ ~dry_run
    /\ setLog # <<>>
    /\ setLog[1].by = "fg"
    /\ setLog[1].at \in {"report", "gather"}
    /\ setLog[1].fetches = Len(fetchLog)
    /\ Len(QueueOf(Last(fetchLog))) = 2
    /\ LastBatchSettled

\* What "no iteration k+1" means for a signal set as recorded in s.
NoLaterIteration(s) ==
    /\ Fetches = s.fetches
    /\ \A i \in DOMAIN out :
          i > s.lines => out[i].kind \notin {"MSG", "PROGRESS"}
    /\ bgpc = "exited" =>
          /\ Last(out).kind = "RESULT"
          /\ Last(out).total = SumBatches(SubSeq(fetchLog, 1, s.fetches))

\* C3 as stated: a signal set after iteration k's deletes have settled and
\* before iteration k+1's fetch starts prevents iteration k+1.
C3_BoundaryBeforeFetch ==
    \A i \in DOMAIN setLog :
        setLog[i].at \in {"check", "iter"} => NoLaterIteration(setLog[i])

SetBeforeTest == \E i \in DOMAIN setLog : setLog[i].at = "check"

\* C3 amended: a signal set after iteration k's deletes have settled and
\* before the background thread tests the signal at the top of iteration k+1
\* (k = 0 included) prevents every fetch, message line and PROGRESS line of
\* iteration k+1; the thread then exits after a RESULT line whose total is
\* the sum of the first k batches.
C3_BoundaryBeforeTest ==
    /\ [](\A i \in DOMAIN setLog :
             setLog[i].at = "check" => NoLaterIteration(setLog[i]))
    /\ (SetBeforeTest ~> bgpc = "exited")

\* C3 witness: the signal was set between iteration 1 and the test of
\* iteration 2, and the run ended with the total of the first batch.
C3_Witness ==
    /\ bgpc = "exited"
    /\ setLog # <<>>
    /\ setLog[1].at = "check"
    /\ setLog[1].fetches = 1
    /\ Len(fetchLog) = 1
    /\ Last(out) = ResultLine(ResultLabel, 2)


UserQuit == \E i \in DOMAIN setLog : setLog[i].by = "fg"

RECURSIVE RefRun(_, _, _)
\* the lines of a run that deletes every page it fetches from folder S,
\* starting with total t in iteration k, with the action labels blanked
RefRun(S, t, k) ==
    LET page == Oldest(S, batch_size)
        n == Len(page)
    IN  IF n = 0 THEN <<CompleteLine, ResultLine("-", t)>>
        ELSE [i \in 1..n |-> MsgLine("-", page[i])]
             \o <<ProgressLine(t + n, k, n)>>
             \o RefRun(S \ Range(page), t + n, k + 1)

\* a line without its DRY-RUN/DELETING/DELETED label
Unlabel(l) == IF l.kind \in {"MSG", "RESULT"} THEN [l EXCEPT !.action = "-"] ELSE l
Unlabelled(s) == [i \in DOMAIN s |-> Unlabel(s[i])]

\* every message has an id and the user has not asked to quit
Undisturbed == idless = {} /\ ~UserQuit /\ LinesOf("ACK") = <<>>

\* C4: over the same messages (all with an id, nobody cancels) a dry run
\* emits the lines of the deleting run, labels aside, and ends like it.
C4_DryRunEquivalence ==
    (dry_run /\ Undisturbed) =>
        /\ IsPrefix(Unlabelled(BgOut), RefRun(mailbox0, 0, 1))
        /\ bgpc = "exited" => Unlabelled(BgOut) = RefRun(mailbox0, 0, 1)

\* C5: in a dry run no delete call is ever issued and the folder is left
\* as it was.
C5_DryRunNeverDeletes ==
    dry_run => (delLog = <<>> /\ tasks = <<>> /\ mailbox = mailbox0)

\* C5 witness: a dry run that went through two iterations and was stopped by
\* the user.
C5_Witness ==
    /\ dry_run
    /\ bgpc = "exited"
    /\ UserQuit
    /\ Len(LinesOf("PROGRESS")) = 2
    /\ Len(message_queue) = 2

\* C6: when a delete of a batch fails, the other deletes of the batch are
\* still issued and settle before the coordinator goes on, and the loop is
\* not stopped by the failure.
C6_DeleteFailureIndependence ==
    ((\E m \in DOMAIN tasks : tasks[m] = "failed") /\ bgpc # "gather") =>
        /\ \A m \in DOMAIN tasks : tasks[m] \in {"ok", "failed"}
        /\ bgpc \notin {"close_exc", "aborted"}

EmptyFetched == fetchLog # <<>> /\ Last(fetchLog) = <<>>

\* C7: when the fetch of iteration k returns no message, exactly one
\* completion message is emitted, iteration k has no PROGRESS line and no
\* delete, no further fetch occurs and the thread leaves the loop and exits.
C7_EmptyBatchTerminates ==
    /\ [](\A k \in DOMAIN fetchLog : fetchLog[k] = <<>> =>
            /\ k = Len(fetchLog)
            /\ ~fetchFailed
            /\ Len(LinesOf("COMPLETE")) = (IF bgpc = "empty" THEN 0 ELSE 1)
            /\ \A i \in DOMAIN out :
                  out[i].kind = "PROGRESS" => out[i].iteration # k
            /\ \A j \in DOMAIN delLog : delLog[j].iteration < k
            /\ \A m \in DOMAIN tasks : tasks[m] = "ok"
            /\ bgpc \in {"empty", "check", "close_ok", "result", "exited"})
    /\ (EmptyFetched ~> bgpc = "exited")

\* C7 witness: two pages were deleted, the third fetch was empty and the
\* thread has exited.
C7_Witness ==
    /\ bgpc = "exited"
    /\ EmptyFetched
    /\ Len(fetchLog) = 3
    /\ ~UserQuit
    /\ Len(delLog) = 3

\* C8: once the background thread has finished after an empty fetch, the
\* foreground listener stops and purge_worker returns without the user
\* typing anything more.
C8_ForegroundStops ==
    (bgpc = "exited" /\ EmptyFetched) ~> (fgpc \in {"returned", "raised"})

\* C9: the total of the PROGRESS line of iteration k and the worker's total
\* after iteration k are the sum of the first k batch sizes, and the
\* worker's total never decreases.
C9_ProgressTally ==
    /\ [](/\ \A i \in DOMAIN out :
               out[i].kind = "PROGRESS" =>
                  /\ out[i].iteration \in DOMAIN fetchLog
                  /\ out[i].total =
                        SumBatches(SubSeq(fetchLog, 1, out[i].iteration))
          /\ bgpc = "check" =>
               /\ Len(fetchLog) = counter - 1
               /\ total = SumBatches(fetchLog))
    /\ [][total' >= total]_vars

\* C9 witness: batches of 2 and 1 have been processed and the total is 3.
C9_Witness ==
    /\ bgpc = "check"
    /\ counter = 3
    /\ total = 3
    /\ Len(QueueOf(fetchLog[1])) = 2
    /\ Len(LinesOf("PROGRESS")) = 2
    /\ LinesOf("PROGRESS")[2].total = 3

\* C10: when a fetch raises, the background thread aborts at once: that
\* fetch is the last one, nothing is deleted afterwards, the iteration has
\* no PROGRESS line, no RESULT line is ever emitted, and the event loop is
\* closed before the thread ends.
C10_FetchFailureFailsFast ==
    /\ [](fetchFailed =>
            /\ bgpc \in {"close_exc", "aborted"}
            /\ Fetches = counter
            /\ \A i \in DOMAIN out :
                  /\ out[i].kind # "RESULT"
                  /\ out[i].kind = "PROGRESS" => out[i].iteration < counter
            /\ \A j \in DOMAIN delLog : delLog[j].iteration < counter
            /\ \A m \in DOMAIN tasks : tasks[m] = "ok"
            /\ bgpc = "aborted" => loop_closed)
    /\ (fetchFailed ~> (bgpc = "aborted" /\ loop_closed))

\* C10 witness: the second fetch raised after a first batch was deleted, and
\* the thread has ended with its loop closed.
C10_Witness ==
    /\ fetchFailed
    /\ bgpc = "aborted"
    /\ loop_closed
    /\ Len(fetchLog) = 1
    /\ Len(delLog) >= 1


\* C11: in each fan-out of the client layer (delete_messages of the purge,
\* move_messages, message_move_all) at most 4 calls are in flight at any
\* instant, and every id of the input is submitted: once the operation is
\* over (the purge thread has ended or gone on, the move operation has
\* returned) no id of the input is left without its call.
C11_ConcurrencyCeiling ==
    /\ Cardinality(InFlight) <= 4
    /\ Cardinality(MvInFlight) <= 4
    /\ bgpc \in {"return", "check", "aborted"} =>
          \A m \in DOMAIN tasks : tasks[m] # "waiting"
    /\ mvpc = "returned" =>
          \A i \in DOMAIN message_ids : \E j \in DOMAIN mvLog : mvLog[j] = i

\* The ceiling alone: never more than 4 calls in flight.
CeilingOnly == Cardinality(InFlight) <= 4 /\ Cardinality(MvInFlight) <= 4

\* The ceiling is reached with calls still outside the semaphore.
CeilingReached ==
    \/ Cardinality(InFlight) = 4 /\ \E m \in DOMAIN tasks : tasks[m] = "waiting"
    \/ Cardinality(MvInFlight) = 4 /\ \E i \in DOMAIN mvTasks : mvTasks[i] = "waiting"


\* C12: batches are processed one after the other: whenever a fetch starts,
\* every delete of the previous iteration has been issued and has settled
\* (a failed delete ends the run, so no fetch follows it).
C12_BatchesSequential ==
    [][Fetches' # Fetches =>
          /\ \A m \in DOMAIN tasks : tasks[m] = "ok"
          /\ ~dry_run =>
                \A i \in DOMAIN message_queue :
                    \E j \in DOMAIN delLog :
                        delLog[j] = [id |-> message_queue[i],
                                     iteration |-> counter - 1]]_vars

\* C12 witness: the second fetch of a deleting run has been made after the
\* two deletes of the first batch.
C12_Witness ==
    /\ ~dry_run
    /\ Len(fetchLog) = 2
    /\ Len(QueueOf(fetchLog[1])) = 2
    /\ Len(delLog) = 2
    /\ bgpc \in {"report", "empty"}


\* no fetch and no delete has raised
NoFailure == ~fetchFailed /\ \A m \in DOMAIN tasks : tasks[m] # "failed"

\* a deleting run over messages that all have an id, which nothing disturbs
CleanRun == ~dry_run /\ Undisturbed /\ NoFailure

\* the messages of page pg, and those of the pages fetched before the k-th
PageNs(pg) == [i \in DOMAIN pg |-> pg[i].n]
FetchedBefore(k) == UNION {Range(PageNs(fetchLog[j])) : j \in 1..(k - 1)}

\* no value occurs twice in sequence q
Distinct(q) == \A i, j \in DOMAIN q : q[i] = q[j] => i = j

\* C13: a deleting run without failure or cancellation over S old messages
\* fetches each time the batch_size oldest messages that remain, reports and
\* deletes every message exactly once, and reaches DONE through an empty
\* fetch with a RESULT total of S.
C13_PurgeCompletes ==
    /\ [](CleanRun =>
            /\ \A k \in DOMAIN fetchLog :
                  PageNs(fetchLog[k]) =
                     Oldest(mailbox0 \ FetchedBefore(k), batch_size)
            /\ Distinct([j \in DOMAIN delLog |-> delLog[j].id])
            /\ Distinct([i \in DOMAIN LinesOf("MSG") |-> LinesOf("MSG")[i].id])
            /\ bgpc = "exited" =>
                  /\ EmptyFetched
                  /\ mailbox = {}
                  /\ {delLog[j].id : j \in DOMAIN delLog} = mailbox0
                  /\ {LinesOf("MSG")[i].id : i \in DOMAIN LinesOf("MSG")}
                        = mailbox0
                  /\ Last(out) = ResultLine("DELETED", Cardinality(mailbox0)))
    /\ ((~dry_run /\ idless = {}) ~>
            (bgpc = "exited" \/ UserQuit \/ ~NoFailure))

\* C13 witness: batch_size 2 and three old messages: totals 2 and 3, three
\* fetches, RESULT total=3.
C13_Witness ==
    /\ CleanRun
    /\ bgpc = "exited"
    /\ batch_size = 2
    /\ mailbox0 = 1..3
    /\ Len(fetchLog) = 3
    /\ LinesOf("PROGRESS") = <<ProgressLine(2, 1, 2), ProgressLine(3, 2, 1)>>
    /\ Last(out) = ResultLine("DELETED", 3)


\* C14: once the cancellation signal is set, the loop test never lets
\* another iteration begin: only the iteration under way at that moment is
\* finished (its fetch included when the test had just been passed), and
\* with both threads scheduled and every client call ending the background
\* thread then terminates.
C14_CancellationNotStarved ==
    /\ [][quit_event => ~(bgpc = "check" /\ bgpc' = "iter")]_vars
    /\ [](\A i \in DOMAIN setLog :
             Fetches <= setLog[i].fetches +
                        (IF setLog[i].at = "iter" THEN 1 ELSE 0))
    /\ (quit_event ~> bgpc \in {"exited", "aborted"})

\* C14 witness: QUIT came while the deletes of the first of two batches were
\* in flight; the batch was finished and the thread exited without another
\* fetch.
C14_Witness ==
    /\ bgpc = "exited"
    /\ setLog # <<>>
    /\ setLog[1].by = "fg"
    /\ setLog[1].at = "gather"
    /\ Fetches = 1
    /\ mailbox # {}
    /\ Last(out) = ResultLine("DELETED", 2)


\* C15: when the background thread leaves its loop normally it emits exactly
\* one RESULT line, as its last line, carrying the running total of the loop
\* and the label DRY-RUN in a dry run and DELETED otherwise; no RESULT line
\* exists before that.
C15_FinalResultLine ==
    /\ [](/\ bgpc = "exited" =>
               /\ Len(LinesOf("RESULT")) = 1
               /\ Last(BgOut) = ResultLine(IF dry_run THEN "DRY-RUN"
                                           ELSE "DELETED", total)
               /\ total = SumBatches(fetchLog)
          /\ bgpc # "exited" => LinesOf("RESULT") = <<>>)
    /\ (bgpc = "close_ok" ~> bgpc = "exited")

\* C15 witness: a dry run stopped by the user after one batch of two ends
\* with RESULT|DRY-RUN|total=2.
C15_Witness ==
    /\ bgpc = "exited"
    /\ dry_run
    /\ UserQuit
    /\ Last(BgOut) = ResultLine("DRY-RUN", 2)

\* lower case of the characters the input lines use
LowerChar(c) ==
    CASE c = "Q" -> "q"
      [] c = "U" -> "u"
      [] c = "I" -> "i"
      [] c = "T" -> "t"
      [] c = "S" -> "s"
      [] OTHER -> c

\* line a is line b when case is ignored
EqualsIgnoreCase(a, b) ==
    /\ Len(a) = Len(b)
    /\ \A i \in DOMAIN a : LowerChar(a[i]) = LowerChar(b[i])

FgSets == SelectSeq(setLog, LAMBDA r : r.by = "fg")

\* C16: a line read by the foreground leads to the acknowledgement and the
\* set of the signal exactly when it is QUIT with case ignored; any other
\* line leaves the signal alone and sends the listener back to its loop,
\* which reads again while the thread is alive; the foreground acknowledges
\* and sets at most once, then returns.
C16_ForegroundListener ==
    /\ [][/\ \A line \in InputLines :
               FgPrompt(line) =>
                  /\ fgpc' = "ack" <=> EqualsIgnoreCase(line, <<"q", "u", "i", "t">>)
                  /\ fgpc' # "ack" => fgpc' = "alive"
                  /\ quit_event' = quit_event
          /\ (fgpc = "alive" /\ fgpc' # fgpc /\ ThreadAlive) => fgpc' = "prompt"
          /\ Len(FgSets') > Len(FgSets) => (fgpc = "set" /\ fgpc' = "returned")
         ]_vars
    /\ [](/\ Len(LinesOf("ACK")) <= 1
          /\ Len(FgSets) <= 1
          /\ Len(LinesOf("ACK")) = (IF fgpc = "set" THEN 1 ELSE Len(FgSets))
          /\ FgSets # <<>> => (quit_event /\ fgpc = "returned"))
    /\ (fgpc = "ack" ~> (fgpc = "returned" /\ quit_event /\ FgSets # <<>>))

\* C16 witness: the user's QUIT was acknowledged once and set the signal
\* while the background thread was alive; the listener has stopped.
C16_Witness ==
    /\ fgpc = "returned"
    /\ ThreadAlive
    /\ quit_event
    /\ Len(FgSets) = 1
    /\ ~FgSets[1].was
    /\ Len(LinesOf("ACK")) = 1


BgSets == SelectSeq(setLog, LAMBDA r : r.by = "bg")

\* C17 as stated: the signal is set by exactly one set operation, and no set
\* operation occurs once it is true.
C17_SetExactlyOnce ==
    /\ Len(setLog) <= 1
    /\ \A i \in DOMAIN setLog : ~setLog[i].was

\* C17 amended: the signal is monotonic (false to true, never reset) and is
\* true exactly when a set operation has occurred; a run has at most two set
\* operations, at most one by the foreground (QUIT) and at most one by the
\* background (empty fetch), and only the first of them changes the flag.
C17_SignalMonotonic ==
    /\ [][quit_event => quit_event']_vars
    /\ [](/\ quit_event <=> setLog # <<>>
          /\ Len(FgSets) <= 1
          /\ Len(BgSets) <= 1
          /\ \A i \in DOMAIN setLog : setLog[i].was <=> i > 1)

\* C17 witness: both threads have set the signal, the foreground after the
\* background's empty fetch.
C17_Witness ==
    /\ Len(setLog) = 2
    /\ setLog[1].by = "bg"
    /\ setLog[2].by = "fg"
    /\ setLog[2].was
    /\ quit_event


\* the move tasks whose post raised
MvFailed == {i \in DOMAIN mvTasks : mvTasks[i] = "failed"}

\* C18: move_messages always returns, one result per input id in input order,
\* the moved message where the move succeeded and None where it failed.
C18_MoveMessagesNoneOnFailure ==
    (op = "move_messages" /\ mvpc # "gather") =>
        /\ mvpc = "returned"
        /\ Len(mvResult) = Len(message_ids)
        /\ \A i \in DOMAIN message_ids :
              /\ mvTasks[i] \in {"ok", "none", "failed"}
              /\ mvResult[i] = (IF mvTasks[i] = "ok" THEN message_ids[i] ELSE 0)

\* C19: message_move_all never raises out of the fan-out; when it returns
\* every collected id has been submitted and has settled, and the result is
\* the number of collected ids minus the number whose move raised; with no
\* collected id it returns 0 without a move; once collection has ended it
\* does return.
C19_MoveAllCountsSuccesses ==
    /\ [](op = "move_all" =>
            /\ mvpc = "raised" => (mvTasks = <<>> /\ mvLog = <<>>)
            /\ mvpc = "returned" =>
                  /\ mvResult = Len(message_ids) - Cardinality(MvFailed)
                  /\ Range(mvLog) = DOMAIN message_ids
                  /\ Distinct(mvLog)
                  /\ \A i \in DOMAIN message_ids :
                        mvTasks[i] \in {"ok", "none", "failed"}
                  /\ message_ids = <<>> => (mvResult = 0 /\ mvLog = <<>>))
    /\ ((op = "move_all" /\ mvpc = "collected") ~> mvpc = "returned")

\* C19 witness: message_move_all has returned after some moves raised and
\* others succeeded.
C19_Witness ==
    /\ op = "move_all"
    /\ mvpc = "returned"
    /\ Cardinality(MvFailed) >= 2
    /\ mvResult >= 2
    /\ mvResult = Len(message_ids) - Cardinality(MvFailed)

RECURSIVE CollectedUpTo(_)
\* the ids of pages 1..k in page order, id-less messages left out
CollectedUpTo(k) ==
    IF k = 0 THEN <<>>
    ELSE CollectedUpTo(k - 1) \o IdsOf(PageValue(k))

\* page p has messages and links to a next page
Continues(p) == PageValue(p) # <<>> /\ NextLinkOf(p) # 0

\* C20: the collection loop fetches pages 1, 2, ... in order, each once; it
\* goes on exactly while the page fetched has messages and a next link; the
\* collected ids are the non-empty ids of the fetched pages in order; no move
\* is issued and the ids do not change once collection has ended; the loop
\* ends on every finite chain.
C20_Pagination ==
    /\ [](op = "move_all" =>
            /\ \A i \in DOMAIN pageLog : pageLog[i] = i
            /\ Len(pageLog) <= Len(pages)
            /\ \A i \in DOMAIN pageLog : i < Len(pageLog) => Continues(i)
            /\ (mvpc = "collect" /\ pageLog # <<>>) => Continues(Len(pageLog))
            /\ mvpc \in {"collected", "gather", "returned"} =>
                  /\ pageLog # <<>>
                  /\ ~Continues(Len(pageLog))
            /\ message_ids = CollectedUpTo(Len(pageLog))
            /\ \A i \in DOMAIN message_ids : message_ids[i] # 0
            /\ mvpc \in {"collect", "collected"} =>
                  (mvLog = <<>> /\ mvTasks = <<>>))
    /\ [][(op = "move_all" /\ mvpc # "collect") =>
             (message_ids' = message_ids /\ pageLog' = pageLog)]_vars
    /\ ((op = "move_all" /\ mvpc = "collect") ~>
           mvpc \in {"collected", "raised"})

\* C20 witness: three pages were followed, the last one had no next link,
\* an id-less message was left out and a move has been issued.
C20_Witness ==
    /\ op = "move_all"
    /\ Len(pageLog) = 3
    /\ \E p \in 1..2 : pages[p].noid # {}
    /\ Len(message_ids) >= 3
    /\ PageValue(3) # <<>>
    /\ mvLog # <<>>


\* the messages whose delete call returned: they have left the folder
Deleted == mailbox0 \ mailbox

\* the ids for which a delete call was issued
DeleteIssued == {delLog[j].id : j \in DOMAIN delLog}

\* C21: in a deleting run a RESULT line carries the number of distinct
\* messages whose delete returned, each of them issued; once a delete has
\* failed the worker only aborts, and no RESULT line exists or follows.
C21_ResultCountsDeleted ==
    ~dry_run =>
        /\ \A i \in DOMAIN out :
              out[i].kind = "RESULT" =>
                 /\ out[i].total = Cardinality(Deleted)
                 /\ Deleted \subseteq DeleteIssued
                 /\ \A m \in DOMAIN tasks : tasks[m] = "ok"
        /\ (\E m \in DOMAIN tasks : tasks[m] = "failed") =>
              /\ bgpc \in {"gather", "close_exc", "aborted"}
              /\ LinesOf("RESULT") = <<>>

\* C21 witness: a deleting run over two batches has emitted its RESULT line
\* while a message without id stayed in the folder.
C21_Witness ==
    /\ ~dry_run
    /\ bgpc = "exited"
    /\ LinesOf("RESULT") # <<>>
    /\ Len(delLog) >= 2
    /\ \E i, j \in DOMAIN delLog : delLog[i].iteration # delLog[j].iteration
    /\ Cardinality(Deleted) = 2
    /\ mailbox # {}


\* the worker's output holds, for iteration k, one line per id of its batch
\* in queue order, directly followed by its PROGRESS line; the PROGRESS line
\* carries the total including that batch
IterationReported(k) ==
    LET q == QueueOf(fetchLog[k])
        b == Len(q)
    IN  \E i \in DOMAIN BgOut :
           /\ BgOut[i] = ProgressLine(SumBatches(SubSeq(fetchLog, 1, k)), k, b)
           /\ i > b
           /\ \A j \in 1..b : BgOut[i - b - 1 + j] = MsgLine(ActionLabel, q[j])

\* C22: when a delete call is issued, the lines of its batch and the PROGRESS
\* line of its iteration are already the last lines the worker has echoed;
\* every iteration with a started delete has its PROGRESS line.
C22_ReportBeforeDelete ==
    /\ [][delLog' # delLog =>
             /\ Last(delLog').iteration = Len(fetchLog)
             /\ IterationReported(Len(fetchLog))
             /\ Last(BgOut).kind = "PROGRESS"
             /\ Last(BgOut).iteration = Len(fetchLog)
             /\ out' = out]_vars
    /\ [](\A j \in DOMAIN delLog :
             /\ delLog[j].iteration \in DOMAIN fetchLog
             /\ IterationReported(delLog[j].iteration))

\* C22 witness: a delete of the second iteration is in flight after two
\* PROGRESS lines.
C22_Witness ==
    /\ bgpc = "gather"
    /\ delLog # <<>>
    /\ Last(delLog).iteration = 2
    /\ tasks[Last(delLog).id] = "inflight"
    /\ Len(LinesOf("PROGRESS")) = 2
    /\ IterationReported(2)


\* the number of messages of a fetched page that have a non-empty id
IdCount(pg) == Cardinality({i \in DOMAIN pg : pg[i].id # 0})

RECURSIVE IdCountUpTo(_)
\* the same, summed over the first k fetches
IdCountUpTo(k) ==
    IF k = 0 THEN 0 ELSE IdCountUpTo(k - 1) + IdCount(fetchLog[k])

\* the number of per-message lines among the first i lines of the worker
MsgLinesUpTo(i) ==
    Cardinality({j \in 1..i : BgOut[j].kind = "MSG"})

NonEmptyFetches == {k \in DOMAIN fetchLog : fetchLog[k] # <<>>}

\* C23: the k-th PROGRESS line carries iteration k, its batch is the number
\* of messages of fetch k that have an id, and as many per-message lines
\* stand between it and the previous PROGRESS line; every non-empty fetch
\* gets its PROGRESS line; the total grows by that number, and in a deleting
\* run exactly the ids of those messages are passed to delete_messages; a
\* message without id is never reported, counted in a line, or deleted.
C23_BatchAccounting ==
    /\ [](/\ \A k \in DOMAIN LinesOf("PROGRESS") :
                /\ LinesOf("PROGRESS")[k].iteration = k
                /\ k \in NonEmptyFetches
                /\ LinesOf("PROGRESS")[k].batch = IdCount(fetchLog[k])
                /\ LinesOf("PROGRESS")[k].total = IdCountUpTo(k)
          /\ \A i \in DOMAIN BgOut :
                BgOut[i].kind = "PROGRESS" =>
                   MsgLinesUpTo(i) = IdCountUpTo(BgOut[i].iteration)
          /\ Len(LinesOf("PROGRESS")) =
                Cardinality(NonEmptyFetches) - (IF bgpc = "report" THEN 1 ELSE 0)
          /\ \A i \in DOMAIN out :
                out[i].kind = "MSG" => out[i].id \in mailbox0 \ idless
          /\ \A j \in DOMAIN delLog : delLog[j].id \in mailbox0 \ idless
          /\ idless \subseteq mailbox
          /\ bgpc \in {"check", "close_ok", "result", "exited"} =>
                total = IdCountUpTo(Len(fetchLog)))
    /\ [][/\ (bgpc = "report" /\ bgpc' # "report") =>
               /\ it_total' - it_total = IdCount(messages)
               /\ Last(out') =
                     ProgressLine(it_total', Len(fetchLog), IdCount(messages))
               /\ ~dry_run =>
                     /\ bgpc' = "gather"
                     /\ DOMAIN tasks' =
                           {messages[i].id : i \in DOMAIN messages} \ {0}
                     /\ Cardinality(DOMAIN tasks') = IdCount(messages)
          /\ total' # total => total' - total = IdCount(Last(fetchLog))
         ]_vars

\* C23 witness: a deleting run fetched two messages, one without id, echoed
\* one line and PROGRESS with batch 1, and issued the one delete.
C23_Witness ==
    /\ ~dry_run
    /\ fetchLog # <<>>
    /\ Len(fetchLog[1]) = 2
    /\ IdCount(fetchLog[1]) = 1
    /\ LinesOf("PROGRESS") # <<>>
    /\ LinesOf("PROGRESS")[1].batch = 1
    /\ MsgLinesUpTo(Len(BgOut)) = 1
    /\ Len(delLog) = 1
    /\ total = 1

====
